---- MODULE Spec2Model ----
(***************************************************************************)
(* The request engine of the Taskcluster Rust client                       *)
(* (src/clients/client-rust/src/client.rs): Client::new, Client::request,  *)
(* Client::build_request and Client::sign_request.                         *)
(*                                                                         *)
(* A call of Client::request is an async task.  It runs from one await to  *)
(* the next without interruption, so each action below is one such run:    *)
(*   Start    the call up to the first `client.execute(req).await`         *)
(*   Respond  the completion of that await up to a return, a panic or the  *)
(*            `delay_for(duration).await`                                  *)
(*   Wake     the completion of the delay up to the next execute await     *)
(* SetCredentials is the owner of the Client assigning its public          *)
(* `credentials` field between two calls.                                  *)
(*                                                                         *)
(* Strings that the code inspects are sequences of tokens; Option<T> is a   *)
(* sequence of length 0 (None) or 1 (Some).                                *)
(***************************************************************************)
EXTENDS Integers, Sequences, FiniteSets, TLC

\* ------------------------------------------------------------------ bounds

\* Largest retry ceiling (Retry.retries) a Client is constructed with.
MaxRetries == 2

\* Cap on the physical attempts of one call.  Only a call whose u32 budget
\* wrapped around can reach it: every other call stops at Retry.retries.
MaxAttempts == MaxRetries + 1

\* The tasks that call the Client; a task makes one call after another.
Calls == {1}

\* ------------------------------------------------------------------ values

None == <<>>
Some(x) == <<x>>
IsSome(o) == Len(o) = 1
Unwrap(o) == o[1]

\* Retry.retries and the loop's `retries` counter are u32.  A u32 is kept as
\* its two 16-bit halves, value = hi * 65536 + lo, so that the full width is
\* represented.
HALF == 65536
u32(n) == [hi |-> (n \div HALF) % HALF, lo |-> n % HALF]

\* Retry values of Client::new: backoff's MAX_INTERVAL_MILLIS and the timeout.
MAX_INTERVAL_MILLIS == 60000
DEFAULT_TIMEOUT_SECS == 30

\* backoff::default::INITIAL_INTERVAL_MILLIS, the interval after reset().
INITIAL_INTERVAL_MILLIS == 500

\* The Credentials the owner of the Client may configure.
CredentialValues ==
    { [client_id |-> "alice", access_token |-> "ka"],
      [client_id |-> "bob",   access_token |-> "kb"] }

CredentialOptions == {None} \cup { Some(k) : k \in CredentialValues }

\* Arguments of Client::request: (method, path, query, body).
RequestArgs ==
    { [method |-> "POST", path |-> <<"task", "/", "cancel">>,
       query |-> Some(<< <<(<<"z">>), (<<"b", " ", "c">>)>>,
                         <<(<<"a">>), (<<"d", "&", "e">>)>> >>),
       body |-> Some("{}")],
      [method |-> "GET",  path |-> <<"..", "/", "ping">>,
       query |-> None, body |-> None],
      [method |-> "GET",  path |-> <<"http:", "/", "/">>,
       query |-> None, body |-> None],
      [method |-> "G T",  path |-> <<"ping">>,
       query |-> None, body |-> None],
      [method |-> "GET",  path |-> <<"/", "ping">>,
       query |-> None, body |-> None],
      [method |-> "POST", path |-> <<"/", "task">>,
       query |-> None, body |-> Some("{}")] }

NoArgs == [method |-> "", path |-> <<>>, query |-> None, body |-> None]

\* What one `client.execute(req).await` can complete with: a transport
\* error, or a response with some status.
Statuses == {200, 303, 404, 500, 503}

Outcomes ==
    { [kind |-> "transport", status |-> 0] }
        \cup { [kind |-> "response", status |-> s] : s \in Statuses }

\* What the target of a redirect answers.
TargetOutcomes == { [kind |-> "response", status |-> 404] }

\* The body the server sends with a response of a given status.
body_of(resp) == <<"body of", resp.status>>

\* Result<reqwest::Response, Error> of a call, and the panic of its task.  An
\* Ok holds the Response, whose body the caller can read; an Error has none.
NoResult == [tag |-> "none", kind |-> "", status |-> 0, body |-> None]
Ok(resp) ==
    [tag |-> "Ok", kind |-> "response", status |-> resp.status,
     body |-> Some(body_of(resp))]
Err(kind, status) == [tag |-> "Err", kind |-> kind, status |-> status, body |-> None]
Panic(msg) == [tag |-> "Panic", kind |-> msg, status |-> 0, body |-> None]

\* The message of the panic in build_request.
PathPanic == "path must not start with /"

\* The message of the panic of an overflowing `retries -= 1`.
OverflowPanic == "attempt to subtract with overflow"

NoRequest == [method |-> "", url |-> None, body |-> None, auth |-> None]

NoBackoff ==
    [current_interval |-> 0, max_interval |-> 0, max_elapsed_time |-> None]

\* ------------------------------------------------------------------ URLs

\* The root_url strings a Client is constructed with:
\* "http://localhost:8080", "https://tc.example/prefix", "file:///srv",
\* "foo://h", "data:x", "tc.example" and "https://".
RootUrls ==
    { <<"http:", "/", "/", "localhost", ":", "8080">>,
      <<"https:", "/", "/", "tc.example", "/", "prefix">>,
      <<"file:", "/", "/", "/", "srv">>,
      <<"foo:", "/", "/", "h">>,
      <<"data:", "x">>,
      <<"tc.example">>,
      <<"https:", "/", "/">> }

ServiceName == "queue"
ApiVersion == "v1"

\* A check of the wrong end of the path.
ends_with_slash(path) == Len(path) > 0 /\ path[Len(path)] = "/"

\* str::starts_with("/")
starts_with_slash(path) == Len(path) > 0 /\ path[1] = "/"

\* The scheme tokens a URL string can begin with, and the schemes that the
\* URL standard calls special.
Schemes == {"http:", "https:", "file:", "foo:", "data:"}

scheme_name(token) ==
    CASE token = "http:"  -> "http"
      [] token = "https:" -> "https"
      [] token = "file:"  -> "file"
      [] token = "foo:"   -> "foo"
      [] OTHER            -> "data"

SpecialSchemes == {"http", "https", "ws", "wss", "ftp", "file"}

\* The port a port token denotes; None for a token that is no number.
port_number(token) == IF token = "8080" THEN Some(8080) ELSE None

NoUrl ==
    [scheme |-> "", host |-> None, port |-> None, path |-> <<>>, query |-> None]

\* Result<Url, ParseError>
UrlOk(url) == [tag |-> "Ok", kind |-> "", url |-> url]
UrlErr(kind) == [tag |-> "Err", kind |-> kind, url |-> NoUrl]

\* The position of the first `token` in `str`, 0 when there is none.
first_index(str, token) ==
    IF \E i \in 1..Len(str) : str[i] = token
    THEN CHOOSE i \in 1..Len(str) :
             str[i] = token /\ \A j \in 1..(i - 1) : str[j] # token
    ELSE 0

\* The URL parser's handling of "." and ".." path segments: "." is dropped,
\* ".." drops the segment before it as well, never going above the root.
RECURSIVE remove_dot_segments(_, _)
remove_dot_segments(input, output) ==
    IF input = <<>> THEN output
    ELSE LET t == Head(input)
             rest == Tail(input)
             next == IF rest # <<>> /\ Head(rest) = "/" THEN Tail(rest) ELSE rest
         IN  CASE t = "."  -> remove_dot_segments(next, output)
               [] t = ".." ->
                    remove_dot_segments(next,
                        IF Len(output) >= 3
                        THEN SubSeq(output, 1, Len(output) - 2) ELSE output)
               [] OTHER    -> remove_dot_segments(rest, Append(output, t))

\* The part of a URL string from its path on: the path up to the first "?"
\* with its dot segments removed, and the query after it.
parse_path_query(str) ==
    LET q == first_index(str, "?")
    IN  [path  |-> remove_dot_segments(
                       IF q = 0 THEN str ELSE SubSeq(str, 1, q - 1), <<>>),
         query |-> IF q = 0 THEN None ELSE Some(SubSeq(str, q + 1, Len(str)))]

\* Url::parse of "scheme:", then "//host[:port]" if present, then the path
\* and query.  A string without a scheme is a relative URL; a special scheme
\* other than file needs a host; the path of a special scheme is never empty.
url_parse(str) ==
    IF str = <<>> \/ Head(str) \notin Schemes
    THEN UrlErr("relative URL without a base")
    ELSE
    LET scheme == scheme_name(Head(str))
        rest == Tail(str)
        has_authority == Len(rest) >= 2 /\ rest[1] = "/" /\ rest[2] = "/"
        after == IF has_authority THEN SubSeq(rest, 3, Len(rest)) ELSE rest
        has_host == has_authority /\ after # <<>> /\ after[1] \notin {"/", "?", ":"}
        has_port == has_host /\ Len(after) >= 3 /\ after[2] = ":"
        port == IF has_port THEN port_number(after[3]) ELSE None
        tail == IF has_port THEN SubSeq(after, 4, Len(after))
                ELSE IF has_host THEN Tail(after) ELSE after
        pq == parse_path_query(tail)
    IN  IF has_authority /\ ~has_host /\ scheme \in SpecialSchemes \ {"file"}
        THEN UrlErr("empty host")
        ELSE IF has_port /\ ~IsSome(port) THEN UrlErr("invalid port number")
        ELSE UrlOk([scheme |-> scheme,
                    host |-> IF has_host THEN Some(after[1]) ELSE None,
                    port |-> port,
                    path |-> IF pq.path = <<>> /\ scheme \in SpecialSchemes
                             THEN <<"/">> ELSE pq.path,
                    query |-> pq.query])

\* Url::cannot_be_a_base: no authority and a path that does not begin with "/".
cannot_be_a_base(url) ==
    ~IsSome(url.host) /\ (url.path = <<>> \/ url.path[1] # "/")

\* The path of a URL up to and including its last "/".
directory(path) ==
    IF \E i \in 1..Len(path) : path[i] = "/"
    THEN SubSeq(path, 1, CHOOSE i \in 1..Len(path) :
                             path[i] = "/" /\ \A j \in (i + 1)..Len(path) : path[j] # "/")
    ELSE <<"/">>

\* Url::join: the reference is resolved against the base.  A reference with a
\* scheme is a URL of its own and replaces the base altogether; a path that
\* begins with "/" replaces the path of the base; any other path is appended
\* to the directory of the base's path; then dot segments are removed.  The
\* query is that of the reference.
url_join(base, reference) ==
    IF reference # <<>> /\ Head(reference) \in Schemes THEN url_parse(reference)
    ELSE IF cannot_be_a_base(base)
    THEN UrlErr("relative URL with a cannot-be-a-base base")
    ELSE
    LET q == first_index(reference, "?")
        p == IF q = 0 THEN reference ELSE SubSeq(reference, 1, q - 1)
        merged == IF p = <<>> THEN base.path
                  ELSE IF p[1] = "/" THEN p
                  ELSE directory(base.path) \o p
    IN  UrlOk([base EXCEPT
                  !.path = remove_dot_segments(merged, <<>>),
                  !.query = IF q # 0 THEN Some(SubSeq(reference, q + 1, Len(reference)))
                            ELSE IF p = <<>> THEN base.query
                            ELSE None])

\* Client::new: Url::parse(root_url)?.join("/api/<service>/<version>/")?
new_base_url(root_url, service_name, api_version) ==
    LET parsed == url_parse(root_url)
    IN  IF parsed.tag = "Err" THEN parsed
        ELSE url_join(parsed.url,
                      <<"/", "api", "/", service_name, "/", api_version, "/">>)

\* A character written as it is.
byte_serialize_raw(ch) == <<ch>>

\* form_urlencoded::byte_serialize on one character: alphanumerics and
\* "*-._" stay, a space becomes "+", every other byte is %XX.
byte_serialize(ch) ==
    CASE ch = " " -> <<"+">>
      [] ch = "&" -> <<"%26">>
      [] ch = "=" -> <<"%3D">>
      [] ch = "/" -> <<"%2F">>
      [] OTHER    -> <<ch>>

RECURSIVE serialize_str(_)
serialize_str(str) ==
    IF str = <<>> THEN <<>>
    ELSE byte_serialize(Head(str)) \o serialize_str(Tail(str))

\* Serializer::extend_pairs: "k=v" for each pair in order, "&" between.
RECURSIVE extend_pairs(_, _)
extend_pairs(acc, pairs) ==
    IF pairs = <<>> THEN acc
    ELSE extend_pairs(
             (IF acc = <<>> THEN <<>> ELSE acc \o <<"&">>)
                 \o serialize_str(Head(pairs)[1]) \o <<"=">>
                 \o serialize_str(Head(pairs)[2]),
             Tail(pairs))

\* Url::port_or_known_default
port_or_known_default(url) ==
    IF IsSome(url.port) THEN url.port
    ELSE CASE url.scheme \in {"http", "ws"}   -> Some(80)
           [] url.scheme \in {"https", "wss"} -> Some(443)
           [] url.scheme = "ftp"              -> Some(21)
           [] OTHER                           -> None

\* Any string taken for a method.
method_from_str_lenient(method) == Some(method)

\* reqwest::Method::from_str: a non-empty token; a space is no token
\* character.
method_from_str(method) ==
    IF method \in {"", "G T"} THEN None ELSE Some(method)

\* ------------------------------------------------------------------ Hawk

\* hawk::PayloadHasher::hash(content_type, SHA256, body)
payload_hash(content_type, body) ==
    [content_type |-> content_type, body |-> body]

\* The key taken from the client id instead of the access token.
hawk_credentials_id_key(c) == [id |-> c.client_id, key |-> c.client_id]

\* hawk::Credentials { id, key } built from the Client's Credentials.
hawk_credentials(c) == [id |-> c.client_id, key |-> c.access_token]

\* Request::make_header: the header carries the id, the timestamp and nonce
\* `fresh` drawn for it, the payload hash and the MAC over all of them and
\* the request line.
make_header(creds, method, host, port, path, hash, fresh) ==
    [id |-> creds.id, ts_nonce |-> fresh, hash |-> hash,
     mac |-> [key |-> creds.key, ts_nonce |-> fresh, method |-> method,
              host |-> host, port |-> port, path |-> path, hash |-> hash]]

\* Client::sign_request
sign_request(creds, req, fresh) ==
    LET url == Unwrap(req.url)
        port == port_or_known_default(url)
        hash == IF IsSome(req.body)
                THEN Some(payload_hash("text/json", Unwrap(req.body)))
                ELSE None
    IN  IF ~IsSome(url.host) THEN [tag |-> "Err", kind |-> "no host", req |-> NoRequest]
        ELSE IF ~IsSome(port) THEN [tag |-> "Err", kind |-> "unknown port", req |-> NoRequest]
        ELSE [tag |-> "Ok", kind |-> "",
              req |-> [req EXCEPT !.auth =
                  Some(<<"Hawk", make_header(creds, req.method, Unwrap(url.host),
                                             Unwrap(port), url.path, hash, fresh)>>)]]

\* The request returned as built whatever the credentials are.
authorize_never(credentials, req, fresh, key_ok) ==
    [tag |-> "Ok", kind |-> "", req |-> req]

\* The `match self.credentials` that ends build_request: with credentials
\* the Hawk key is made of the access token (key_ok says whether the crypto
\* backend accepts it) and the request is signed, without them the request is
\* returned as built.
authorize(credentials, req, fresh, key_ok) ==
    IF IsSome(credentials)
    THEN IF ~key_ok
         THEN [tag |-> "Err", kind |-> "invalid key", req |-> NoRequest]
         ELSE sign_request(hawk_credentials(Unwrap(credentials)), req, fresh)
    ELSE [tag |-> "Ok", kind |-> "", req |-> req]

\* Client::build_request
build_request(credentials, base_url, args, fresh, key_ok) ==
    IF starts_with_slash(args.path)
    THEN [tag |-> "Panic", kind |-> PathPanic, req |-> NoRequest]
    ELSE
    LET joined == url_join(base_url, args.path)
        url == IF IsSome(args.query)
               THEN [joined.url EXCEPT !.query =
                        Some(extend_pairs(IF IsSome(joined.url.query)
                                          THEN Unwrap(joined.url.query) ELSE <<>>,
                                          Unwrap(args.query)))]
               ELSE joined.url
        meth == method_from_str(args.method)
        req == [method |-> IF IsSome(meth) THEN Unwrap(meth) ELSE "",
                url |-> Some(url), body |-> args.body, auth |-> None]
    IN  IF joined.tag = "Err"
        THEN [tag |-> "Err", kind |-> joined.kind, req |-> NoRequest]
        ELSE IF ~IsSome(meth)
        THEN [tag |-> "Err", kind |-> "invalid method", req |-> NoRequest]
        ELSE authorize(credentials, req, fresh, key_ok)

\* ------------------------------------------------------------------ transport

\* reqwest's default policy, which follows up to 10 redirects.
redirect_policy_default == "limited"

\* The redirect policy the reqwest client is built with in Client::new.
redirect_policy == "none"

\* StatusCode::is_redirection and StatusCode::is_server_error
is_redirection(status) == status >= 300 /\ status <= 399

\* Only the status 500 taken for a server error.
is_server_error_500_only(status) == status = 500

\* Client errors taken for server errors as well.
is_error_status(status) == status >= 400 /\ status <= 599

is_server_error(status) == status >= 500 /\ status <= 599

\* Where a 3xx response points (its Location header).
LocationUrl ==
    [scheme |-> "http", host |-> Some("httpstat.us"), port |-> None,
     path |-> <<"/", "404">>, query |-> None]

\* reqwest's Client::execute under a redirect policy, given what the server
\* answers to the request (answer) and what the Location target would answer
\* (target): under Policy::none() a 3xx response is the result as it is; any
\* other policy sends a further request to the Location target.  A URL whose
\* scheme is neither http nor https is refused with an error before anything
\* is sent.
execute(policy, request, answer, target) ==
    IF Unwrap(request.url).scheme \notin {"http", "https"}
    THEN [outcome |-> [kind |-> "transport", status |-> 0], hops |-> <<>>]
    ELSE IF policy # "none" /\ answer.kind = "response" /\ is_redirection(answer.status)
    THEN [outcome |-> target,
          hops |-> << [request EXCEPT !.url = Some(LocationUrl)] >>]
    ELSE [outcome |-> answer, hops |-> <<>>]

\* A copy that leaves the body behind.
try_clone_without_body(request) == Some([request EXCEPT !.body = None])

\* Request::try_clone: Some(copy) unless the body is a stream; the bodies
\* built by RequestBuilder::json are bytes.
try_clone(request) == Some(request)

\* An error that tells only that the server failed.
error_without_status(resp) == Err("status", 0)

\* Response::error_for_status on a response with an error status: a
\* reqwest::Error that carries the status.
error_for_status(resp) == Err("status", resp.status)

\* ------------------------------------------------------------------ retrying

\* backoff's default(), whose max_elapsed_time is 15 minutes, with only the
\* interval set.
new_backoff_default(max_interval) ==
    [current_interval |-> INITIAL_INTERVAL_MILLIS,
     max_interval |-> max_interval,
     max_elapsed_time |-> Some(900000)]

\* The backoff generator as Client::request sets it up: default(), then
\* max_elapsed_time = None, max_interval = retry.max_interval, reset().
new_backoff(max_interval) ==
    [current_interval |-> INITIAL_INTERVAL_MILLIS,
     max_interval |-> max_interval,
     max_elapsed_time |-> None]

\* ExponentialBackoff::next_backoff: None once the elapsed time exceeds
\* max_elapsed_time (elapsed_exceeds says whether the clock is past a given
\* limit), else a duration drawn around current_interval, and the interval
\* grows by the multiplier 1.5 up to max_interval.
next_backoff(b, elapsed_exceeds) ==
    IF IsSome(b.max_elapsed_time) /\ elapsed_exceeds
    THEN [duration |-> None, state |-> b]
    ELSE [duration |-> Some(b.current_interval),
          state |-> [b EXCEPT !.current_interval =
              IF 3 * b.current_interval >= 2 * b.max_interval
              THEN b.max_interval
              ELSE (b.current_interval * 3) \div 2]]

\* A counter that is never decremented.
sub_one_u32_forgotten(n, checks) == [panic |-> FALSE, value |-> n]

\* `retries -= 1` on a u32: with overflow checks (debug builds) a
\* subtraction from 0 panics, without them (release builds) it wraps.
sub_one_u32(n, checks) ==
    IF n.lo >= 1 THEN [panic |-> FALSE, value |-> [n EXCEPT !.lo = @ - 1]]
    ELSE IF n.hi >= 1
    THEN [panic |-> FALSE, value |-> [hi |-> n.hi - 1, lo |-> HALF - 1]]
    ELSE IF checks THEN [panic |-> TRUE, value |-> n]
    ELSE [panic |-> FALSE, value |-> [hi |-> HALF - 1, lo |-> HALF - 1]]

\* The check made one retry early.
budget_spent_at_one(n) == n.hi = 0 /\ n.lo <= 1

\* A test for a negative budget, which an unsigned value never is.
budget_spent_never(n) == FALSE

\* `if retries <= 0`: an unsigned value is <= 0 only when it is 0.
budget_spent(n) == n.hi = 0 /\ n.lo = 0

\* A match that returns a transport error at once.
match_execute_transport_final(outcome) ==
    IF outcome.kind = "transport"
    THEN [return |-> Some(Err("transport", 0)), retry_for |-> NoResult]
    ELSE IF is_server_error(outcome.status)
    THEN [return |-> None, retry_for |-> error_for_status(outcome)]
    ELSE [return |-> Some(Ok(outcome)), retry_for |-> NoResult]

\* The match on the result of execute: a transport error and a 5xx response
\* become `retry_for` and go on to the retry code, any other response is
\* returned.
match_execute(outcome) ==
    IF outcome.kind = "transport"
    THEN [return |-> None, retry_for |-> Err("transport", 0)]
    ELSE IF is_server_error(outcome.status)
    THEN [return |-> None, retry_for |-> error_for_status(outcome)]
    ELSE [return |-> Some(Ok(outcome)), retry_for |-> NoResult]

\* ------------------------------------------------------------------ state

VARIABLES
    root_url,         \* the root_url that Client::new was called with
    constructed,      \* whether Client::new returned Ok(Client) or Err, and why
    credentials,      \* Client.credentials: Option<Credentials>
    retry,            \* Client.retry
    base_url,         \* Client.base_url
    overflow_checks,  \* whether the build checks integer overflow
    pc,               \* where each call is: idle, inflight, sleeping, done,
                      \* panicked, dropped
    cancelled,        \* whether the future of the call was dropped at an await
    args,             \* the arguments each call was made with
    req,              \* `req` of Client::request, the request built before the loop
    retries,          \* `retries` of Client::request
    backoff,          \* `backoff` of Client::request
    nonces,           \* how many Hawk headers each call has computed
    attempts,         \* how many times each call has called client.execute
    sleeps,           \* how many times each call has called delay_for
    outcomes,         \* what each execute of each call completed with
    wire,             \* the requests each call has put on the wire
    result,           \* what each call returned, or its panic
    replaced          \* the credentials that the last assignment made after a
                      \* call overwrote (the current ones while there is none)

vars == <<root_url, constructed, credentials, retry, base_url, overflow_checks,
          pc, cancelled, args, req, retries, backoff, nonces, attempts, sleeps,
          outcomes, wire, result, replaced>>

client_vars == <<root_url, constructed, retry, base_url, overflow_checks>>

\* Client::new with Some(retry), and no call made yet.  When Client::new
\* returned Err there is no Client, and nothing can be called.
Init ==
    /\ root_url \in RootUrls
    /\ credentials \in CredentialOptions
    /\ retry \in { [retries |-> n, max_interval |-> MAX_INTERVAL_MILLIS,
                    timeout |-> DEFAULT_TIMEOUT_SECS] : n \in 0..MaxRetries }
    /\ LET made == new_base_url(root_url, ServiceName, ApiVersion)
       IN  /\ constructed = [tag |-> made.tag, kind |-> made.kind]
           /\ base_url = made.url
    /\ overflow_checks \in BOOLEAN
    /\ pc = [c \in Calls |-> "idle"]
    /\ cancelled = [c \in Calls |-> FALSE]
    /\ args = [c \in Calls |-> NoArgs]
    /\ req = [c \in Calls |-> NoRequest]
    /\ retries = [c \in Calls |-> u32(0)]
    /\ backoff = [c \in Calls |-> NoBackoff]
    /\ nonces = [c \in Calls |-> 0]
    /\ attempts = [c \in Calls |-> 0]
    /\ sleeps = [c \in Calls |-> 0]
    /\ outcomes = [c \in Calls |-> <<>>]
    /\ wire = [c \in Calls |-> <<>>]
    /\ result = [c \in Calls |-> NoResult]
    /\ replaced = credentials

\* One counter and one backoff generator that all calls share, as a field of
\* the Client or a static would be.
local_shared(c) == 1

\* `let mut backoff` and `let mut retries` are locals of Client::request: every
\* call has its own.
local(c) == c

\* A call is between its first await and its return.
InFlight(c) == pc[c] \in {"inflight", "sleeping"}

\* Client::request from its entry to the first `client.execute(req).await`:
\* the backoff is set up, the request is built (and signed) once, and the
\* first clone of it is sent.  The task's previous call, if any, is over.
Start(c, a, key_ok) ==
    /\ constructed.tag = "Ok"
    /\ pc[c] \in {"idle", "done", "panicked", "dropped"}
    /\ LET built == build_request(credentials, base_url, a, <<c, 1>>, key_ok)
       IN  /\ args' = [args EXCEPT ![c] = a]
           /\ cancelled' = [cancelled EXCEPT ![c] = FALSE]
           /\ backoff' = [backoff EXCEPT ![local(c)] = new_backoff(retry.max_interval)]
           /\ nonces' = [nonces EXCEPT ![c] =
                  IF built.tag = "Ok" /\ IsSome(built.req.auth) THEN 1 ELSE 0]
           /\ sleeps' = [sleeps EXCEPT ![c] = 0]
           /\ outcomes' = [outcomes EXCEPT ![c] = <<>>]
           /\ CASE built.tag = "Panic" ->
                     /\ pc' = [pc EXCEPT ![c] = "panicked"]
                     /\ result' = [result EXCEPT ![c] = Panic(built.kind)]
                     /\ req' = [req EXCEPT ![c] = NoRequest]
                     /\ retries' = [retries EXCEPT ![local(c)] = u32(0)]
                     /\ attempts' = [attempts EXCEPT ![c] = 0]
                     /\ wire' = [wire EXCEPT ![c] = <<>>]
                [] built.tag = "Err" ->
                     /\ pc' = [pc EXCEPT ![c] = "done"]
                     /\ result' = [result EXCEPT ![c] = Err(built.kind, 0)]
                     /\ req' = [req EXCEPT ![c] = NoRequest]
                     /\ retries' = [retries EXCEPT ![local(c)] = u32(0)]
                     /\ attempts' = [attempts EXCEPT ![c] = 0]
                     /\ wire' = [wire EXCEPT ![c] = <<>>]
                [] OTHER ->
                     /\ req' = [req EXCEPT ![c] = built.req]
                     /\ retries' = [retries EXCEPT ![local(c)] = u32(retry.retries)]
                     /\ attempts' = [attempts EXCEPT ![c] = 1]
                     /\ wire' = [wire EXCEPT ![c] = << Unwrap(try_clone(built.req)) >>]
                     /\ pc' = [pc EXCEPT ![c] = "inflight"]
                     /\ result' = [result EXCEPT ![c] = NoResult]
    /\ UNCHANGED <<credentials, client_vars, replaced>>

\* The completion of `client.execute(req).await` up to the return, the panic
\* or the `delay_for(duration).await` that follows it.
Respond(c, answer, target, elapsed_exceeds) ==
    /\ pc[c] = "inflight"
    /\ LET ex == execute(redirect_policy, wire[c][Len(wire[c])], answer, target)
           o == ex.outcome
           m == match_execute(o)
           dec == sub_one_u32(retries[local(c)], overflow_checks)
           nb == next_backoff(backoff[local(c)], elapsed_exceeds)
       IN  /\ outcomes' = [outcomes EXCEPT ![c] = Append(@, o)]
           /\ wire' = [wire EXCEPT ![c] = @ \o ex.hops]
           /\ IF IsSome(m.return)
              THEN /\ pc' = [pc EXCEPT ![c] = "done"]
                   /\ result' = [result EXCEPT ![c] = Unwrap(m.return)]
                   /\ UNCHANGED <<retries, backoff, sleeps>>
              ELSE IF dec.panic
              THEN /\ pc' = [pc EXCEPT ![c] = "panicked"]
                   /\ result' = [result EXCEPT ![c] = Panic(OverflowPanic)]
                   /\ UNCHANGED <<retries, backoff, sleeps>>
              ELSE IF budget_spent(dec.value)
              THEN /\ retries' = [retries EXCEPT ![local(c)] = dec.value]
                   /\ pc' = [pc EXCEPT ![c] = "done"]
                   /\ result' = [result EXCEPT ![c] = m.retry_for]
                   /\ UNCHANGED <<backoff, sleeps>>
              ELSE IF ~IsSome(nb.duration)
              THEN /\ retries' = [retries EXCEPT ![local(c)] = dec.value]
                   /\ pc' = [pc EXCEPT ![c] = "done"]
                   /\ result' = [result EXCEPT ![c] = m.retry_for]
                   /\ UNCHANGED <<backoff, sleeps>>
              ELSE /\ retries' = [retries EXCEPT ![local(c)] = dec.value]
                   /\ backoff' = [backoff EXCEPT ![local(c)] = nb.state]
                   /\ sleeps' = [sleeps EXCEPT ![c] = @ + 1]
                   /\ pc' = [pc EXCEPT ![c] = "sleeping"]
                   /\ UNCHANGED result
    /\ UNCHANGED <<credentials, client_vars, cancelled, args, req, nonces, attempts,
                   replaced>>

\* The completion of `delay_for(duration).await` up to the next
\* `client.execute(req).await`: the loop clones `req` again and sends it.
Wake(c) ==
    /\ pc[c] = "sleeping"
    /\ attempts[c] < MaxAttempts
    /\ attempts' = [attempts EXCEPT ![c] = @ + 1]
    /\ wire' = [wire EXCEPT ![c] = Append(@, Unwrap(try_clone(req[c])))]
    /\ pc' = [pc EXCEPT ![c] = "inflight"]
    /\ UNCHANGED <<credentials, client_vars, cancelled, args, req, retries, backoff,
                   nonces, sleeps, outcomes, result, replaced>>

\* The state of a future dropped at an await while the work it started went on
\* in a task of its own.
after_drop_detached(p) == p

\* The state of a future dropped at an await: it is never polled again.
after_drop(p) == "dropped"

\* The task that awaits the call is cancelled: the future of Client::request
\* is dropped at the await it is suspended at, `client.execute(req).await` or
\* `delay_for(duration).await`.  Dropping sends nothing and returns nothing.
Cancel(c) ==
    /\ InFlight(c)
    /\ ~cancelled[c]
    /\ cancelled' = [cancelled EXCEPT ![c] = TRUE]
    /\ pc' = [pc EXCEPT ![c] = after_drop(pc[c])]
    /\ UNCHANGED <<credentials, client_vars, args, req, retries, backoff, nonces,
                   attempts, sleeps, outcomes, wire, result, replaced>>

\* The owner of the Client assigns its `credentials` field.  The assignment
\* needs the Client exclusively (&mut), and a call borrows it (&self) from
\* its start to its end, so no call is in flight.
SetCredentials(new) ==
    /\ constructed.tag = "Ok"
    /\ \A c \in DOMAIN pc : ~InFlight(c)
    /\ credentials' = new
    /\ replaced' = IF \E c \in DOMAIN pc : pc[c] # "idle" THEN credentials ELSE new
    /\ UNCHANGED <<client_vars, pc, cancelled, args, req, retries, backoff, nonces,
                   attempts, sleeps, outcomes, wire, result>>

Next ==
    \/ \E c \in Calls, a \in RequestArgs, key_ok \in BOOLEAN : Start(c, a, key_ok)
    \/ \E c \in Calls, answer \in Outcomes, target \in TargetOutcomes,
          elapsed_exceeds \in BOOLEAN :
            Respond(c, answer, target, elapsed_exceeds)
    \/ \E c \in Calls : Wake(c)
    \/ \E c \in Calls : Cancel(c)
    \/ \E new \in CredentialOptions : SetCredentials(new)

Spec == Init /\ [][Next]_vars

\* ------------------------------------------------------------------ concurrent calls

\* Two tasks that call the same Client (`request` takes &self) at the same
\* time, their awaits interleaved in any order.
Tasks == {1, 2}

\* The request that the tasks make, and the answers they get.
ConcurrentArgs == { a \in RequestArgs : a.method = "POST" /\ a.path = <<"task", "/", "cancel">> }

ConcurrentOutcomes ==
    { o \in Outcomes : o.kind = "transport" \/ o.status \in {200, 500} }

\* Client::new("http://localhost:8080", credentials, ..), and no call made
\* yet.
ConcurrentInit ==
    /\ root_url = <<"http:", "/", "/", "localhost", ":", "8080">>
    /\ credentials \in CredentialOptions
    /\ retry \in { [retries |-> n, max_interval |-> MAX_INTERVAL_MILLIS,
                    timeout |-> DEFAULT_TIMEOUT_SECS] : n \in 0..MaxRetries }
    /\ LET made == new_base_url(root_url, ServiceName, ApiVersion)
       IN  /\ constructed = [tag |-> made.tag, kind |-> made.kind]
           /\ base_url = made.url
    /\ overflow_checks \in BOOLEAN
    /\ pc = [c \in Tasks |-> "idle"]
    /\ cancelled = [c \in Tasks |-> FALSE]
    /\ args = [c \in Tasks |-> NoArgs]
    /\ req = [c \in Tasks |-> NoRequest]
    /\ retries = [c \in Tasks |-> u32(0)]
    /\ backoff = [c \in Tasks |-> NoBackoff]
    /\ nonces = [c \in Tasks |-> 0]
    /\ attempts = [c \in Tasks |-> 0]
    /\ sleeps = [c \in Tasks |-> 0]
    /\ outcomes = [c \in Tasks |-> <<>>]
    /\ wire = [c \in Tasks |-> <<>>]
    /\ result = [c \in Tasks |-> NoResult]
    /\ replaced = credentials

ConcurrentNext ==
    \/ \E c \in Tasks, a \in ConcurrentArgs : Start(c, a, TRUE)
    \/ \E c \in Tasks, answer \in ConcurrentOutcomes, target \in TargetOutcomes,
          elapsed_exceeds \in BOOLEAN :
            Respond(c, answer, target, elapsed_exceeds)
    \/ \E c \in Tasks : Wake(c)
    \/ \E c \in Tasks : Cancel(c)

Concurrent == ConcurrentInit /\ [][ConcurrentNext]_vars

\* ------------------------------------------------------------------ claims

Is5xx(o) == o.kind = "response" /\ o.status >= 500 /\ o.status <= 599
Is4xx(o) == o.kind = "response" /\ o.status >= 400 /\ o.status <= 499
Is3xx(o) == o.kind = "response" /\ o.status >= 300 /\ o.status <= 399
BeginsWithSlash(path) == path # <<>> /\ Head(path) = "/"
Last(seq) == seq[Len(seq)]

\* Every attempt the call has made so far was answered with a 5xx status.
All5xx(c) ==
    /\ outcomes[c] # <<>>
    /\ \A i \in 1..Len(outcomes[c]) : Is5xx(outcomes[c][i])

\* The Hawk header of a request that carries one.
HawkHeader(request) == Unwrap(request.auth)[2]

\* C1: with a retry ceiling N >= 1 and every attempt answered with a 5xx status,
\* the call (unless its task is cancelled) makes exactly N attempts: it has not returned before the N-th
\* answer, and with the N-th it returns the error that carries the status of
\* that last answer.
C1_ExactlyNAttemptsOn5xx ==
    \A c \in Calls :
        (retry.retries >= 1 /\ All5xx(c) /\ ~cancelled[c]) =>
            /\ attempts[c] <= retry.retries
            /\ Len(outcomes[c]) < retry.retries =>
                   /\ pc[c] \in {"sleeping", "inflight"}
                   /\ result[c] = NoResult
            /\ Len(outcomes[c]) >= retry.retries =>
                   /\ pc[c] = "done"
                   /\ attempts[c] = retry.retries
                   /\ Len(wire[c]) = retry.retries
                   /\ result[c] = Err("status", Last(outcomes[c]).status)

\* A call with N = 2 has returned after a 500 and then a 503.
C1_Witness ==
    \E c \in Calls :
        /\ retry.retries = MaxRetries
        /\ retry.retries >= 2
        /\ pc[c] = "done"
        /\ All5xx(c)
        /\ outcomes[c][1].status # Last(outcomes[c]).status
        /\ result[c] = Err("status", Last(outcomes[c]).status)

\* C2: with retries = 0 a call makes exactly one attempt whatever its outcome,
\* never sleeps, and the decrement of the u32 counter from 0 neither aborts the
\* call nor leads to a further attempt.
C2_ZeroRetriesOneAttempt ==
    \A c \in Calls :
        retry.retries = 0 =>
            /\ attempts[c] <= 1
            /\ sleeps[c] = 0
            /\ result[c] # Panic(OverflowPanic)
            /\ outcomes[c] # <<>> => pc[c] = "done"

\* C3: an answer whose status is not 5xx ends the call: it is the last answer,
\* the call returns it as Ok and no further attempt is made; with N >= 1 and a
\* 4xx first answer there is exactly one attempt and the result is the 4xx
\* response.
C3_NonServerErrorReturned ==
    \A c \in Calls :
        /\ \A i \in 1..Len(outcomes[c]) :
               (outcomes[c][i].kind = "response" /\ ~Is5xx(outcomes[c][i])) =>
                   /\ i = Len(outcomes[c])
                   /\ pc[c] = "done"
                   /\ result[c] = Ok(outcomes[c][i])
                   /\ attempts[c] = i
                   /\ sleeps[c] = i - 1
        /\ (retry.retries >= 1 /\ outcomes[c] # <<>> /\ Is4xx(outcomes[c][1])) =>
               /\ attempts[c] = 1
               /\ Len(wire[c]) = 1
               /\ result[c].tag = "Ok"
               /\ result[c].status = outcomes[c][1].status

\* A call with N >= 1 has returned Ok with the 404 it was answered.
C3_Witness ==
    \E c \in Calls :
        /\ retry.retries >= 1
        /\ pc[c] = "done"
        /\ outcomes[c] = << [kind |-> "response", status |-> 404] >>
        /\ result[c] = Ok([kind |-> "response", status |-> 404])

\* C4: with N >= 1 a 3xx answer ends the call with exactly one attempt and the
\* 3xx response as its Ok result, and no request of any call is ever sent to
\* the Location target: every request on the wire goes to the URL of the call.
C4_RedirectNotFollowed ==
    \A c \in Calls :
        /\ \A i \in 1..Len(wire[c]) :
               /\ wire[c][i].url # Some(LocationUrl)
               /\ wire[c][i].url = req[c].url
        /\ (retry.retries >= 1 /\ outcomes[c] # <<>> /\ Is3xx(outcomes[c][1])) =>
               /\ pc[c] = "done"
               /\ attempts[c] = 1
               /\ Len(wire[c]) = 1
               /\ result[c] = Ok(outcomes[c][1])

\* A call with N >= 1 has returned Ok with the 303 it was answered.
C4_Witness ==
    \E c \in Calls :
        /\ retry.retries >= 1
        /\ pc[c] = "done"
        /\ outcomes[c] = << [kind |-> "response", status |-> 303] >>
        /\ result[c] = Ok([kind |-> "response", status |-> 303])
        /\ Len(wire[c]) = 1

\* C5: with credentials, no two attempts of a call carry the same Authorization
\* header: each attempt has a header of its own, with its own timestamp and
\* nonce.
C5_FreshHeaderPerAttempt ==
    \A c \in Calls :
        \A i, j \in 1..Len(wire[c]) :
            (i < j /\ IsSome(wire[c][i].auth)) =>
                /\ wire[c][i].auth # wire[c][j].auth
                /\ HawkHeader(wire[c][i]).ts_nonce # HawkHeader(wire[c][j]).ts_nonce

\* C6: a transport failure is retried while budget remains: after the k-th
\* answer, a transport failure with k < N, the call sleeps or has made attempt
\* k + 1; and a transport error is the result of a call only when its N
\* attempts are used up.
C6_TransportFailureRetried ==
    \A c \in Calls :
        /\ (outcomes[c] # <<>> /\ Last(outcomes[c]).kind = "transport"
                /\ Len(outcomes[c]) < retry.retries /\ ~cancelled[c]) =>
               /\ sleeps[c] = Len(outcomes[c])
               /\ \/ pc[c] = "sleeping" /\ attempts[c] = Len(outcomes[c])
                  \/ pc[c] = "inflight" /\ attempts[c] = Len(outcomes[c]) + 1
        /\ (result[c].tag = "Err" /\ result[c].kind = "transport") =>
               /\ pc[c] = "done"
               /\ Last(outcomes[c]).kind = "transport"
               /\ attempts[c] = retry.retries
               /\ retries[c] = u32(0)

\* A call with N = 2 has returned the transport error of its second attempt.
C6_Witness ==
    \E c \in Calls :
        /\ retry.retries >= 2
        /\ pc[c] = "done"
        /\ Len(outcomes[c]) = retry.retries
        /\ outcomes[c][1].kind = "transport"
        /\ Last(outcomes[c]).kind = "transport"
        /\ sleeps[c] = retry.retries - 1
        /\ result[c] = Err("transport", 0)

\* C7: the credentials are read once per attempt, when the attempt is signed:
\* the header of the i-th attempt is the i-th header the call has computed, and
\* it is made with the credentials the Client has when the attempt goes out.
C7_CredentialsReadPerAttempt ==
    \A c \in Calls :
        /\ IsSome(req[c].auth) => nonces[c] = attempts[c]
        /\ \A i \in 1..Len(wire[c]) :
               IsSome(wire[c][i].auth) =>
                   /\ HawkHeader(wire[c][i]).ts_nonce = <<c, i>>
                   /\ InFlight(c) =>
                          /\ IsSome(credentials)
                          /\ HawkHeader(wire[c][i]).id = Unwrap(credentials).client_id

\* C8: every request that a call in flight has sent carries an Authorization
\* value `Hawk <params>` exactly if the Client has credentials (they are those
\* the request was built with, as they do not change while the call runs).
C8_HawkHeaderIffCredentials ==
    \A c \in Calls :
        InFlight(c) =>
            \A i \in 1..Len(wire[c]) :
                /\ IsSome(wire[c][i].auth) <=> IsSome(credentials)
                /\ IsSome(wire[c][i].auth) =>
                       /\ Len(Unwrap(wire[c][i].auth)) = 2
                       /\ Unwrap(wire[c][i].auth)[1] = "Hawk"

\* A call of a Client with credentials has sent two requests, both with a Hawk
\* header.
C8_Witness ==
    \E c \in Calls :
        /\ InFlight(c)
        /\ IsSome(credentials)
        /\ Len(wire[c]) = 2
        /\ \A i \in 1..2 : Unwrap(wire[c][i].auth)[1] = "Hawk"

\* C9: a call made after the credentials were changed uses the new ones: every
\* request it sends is signed with the id and key of the credentials now set,
\* or is unsigned when they are None, and never signed with the replaced ones.
C9_NextCallUsesNewCredentials ==
    \A c \in Calls :
        InFlight(c) =>
            \A i \in 1..Len(wire[c]) :
                /\ ~IsSome(credentials) => wire[c][i].auth = None
                /\ IsSome(credentials) =>
                       /\ IsSome(wire[c][i].auth)
                       /\ HawkHeader(wire[c][i]).id = Unwrap(credentials).client_id
                       /\ HawkHeader(wire[c][i]).mac.key = Unwrap(credentials).access_token
                /\ (replaced # credentials /\ IsSome(replaced) /\ IsSome(wire[c][i].auth)) =>
                       /\ HawkHeader(wire[c][i]).id # Unwrap(replaced).client_id
                       /\ HawkHeader(wire[c][i]).mac.key # Unwrap(replaced).access_token

\* After a call the credentials were changed from one identity to another, and
\* the call now in flight is signed by the new one.
C9_Witness ==
    \E c \in Calls :
        /\ InFlight(c)
        /\ IsSome(replaced)
        /\ IsSome(credentials)
        /\ replaced # credentials
        /\ HawkHeader(wire[c][1]).id = Unwrap(credentials).client_id

\* C10: a call whose path begins with "/" panics at once: the call makes no
\* attempt, sleeps never and puts nothing on the wire, whatever its method,
\* query, body and the credentials are.
C10_LeadingSlashAborts ==
    \A c \in Calls :
        (pc[c] # "idle" /\ BeginsWithSlash(args[c].path)) =>
            /\ pc[c] = "panicked"
            /\ result[c] = Panic(PathPanic)
            /\ attempts[c] = 0
            /\ sleeps[c] = 0
            /\ outcomes[c] = <<>>
            /\ wire[c] = <<>>

\* A POST with a body and a path "/task", made with credentials, has panicked.
C10_Witness ==
    \E c \in Calls :
        /\ pc[c] = "panicked"
        /\ BeginsWithSlash(args[c].path)
        /\ args[c].method = "POST"
        /\ IsSome(args[c].body)
        /\ IsSome(credentials)
        /\ wire[c] = <<>>

\* The kinds of the errors that the retry code returns.
RetryKinds == {"status", "transport"}

\* The answer asks for a retry: a transport error or a 5xx response.
Retryable(o) == o.kind = "transport" \/ Is5xx(o)

\* C11: a failure of building or signing the request (no host in the URL, no
\* port known for it, an invalid method, a key the backend refuses, a URL join
\* that fails) ends the call with that error before any network I/O: no
\* attempt, no sleep, nothing on the wire, whatever the retry budget is; and a
\* call with an invalid method or a reference that does not join, or a signed
\* call on a URL without host or port, never gets as far as an attempt.
C11_ConfigFailureBeforeIO ==
    \A c \in Calls :
        /\ (result[c].tag = "Err" /\ result[c].kind \notin RetryKinds) =>
               /\ pc[c] = "done"
               /\ attempts[c] = 0
               /\ sleeps[c] = 0
               /\ outcomes[c] = <<>>
               /\ wire[c] = <<>>
        /\ (pc[c] # "idle" /\ args[c].method = "G T") =>
               /\ result[c] = Err("invalid method", 0)
               /\ attempts[c] = 0
        /\ (pc[c] # "idle" /\ args[c].path = <<"http:", "/", "/">>) =>
               /\ result[c] = Err("empty host", 0)
               /\ attempts[c] = 0
        /\ (IsSome(credentials)
                /\ (~IsSome(base_url.host)
                       \/ (~IsSome(base_url.port)
                              /\ base_url.scheme \notin {"http", "https"}))) =>
               ~InFlight(c)

\* With the largest retry budget, a signed call on a URL whose scheme has no
\* known port has ended with that error and without an attempt.
C11_Witness ==
    \E c \in Calls :
        /\ retry.retries = MaxRetries
        /\ pc[c] = "done"
        /\ result[c] = Err("unknown port", 0)
        /\ attempts[c] = 0
        /\ wire[c] = <<>>

\* C12: every call that is over and was not cancelled (nor rejected for its
\* path) has ended in a final state with exactly one result, Ok(response) or
\* Err(error), for every retry ceiling and every sequence of answers.
C12_EveryCallReturns ==
    \A c \in Calls :
        (pc[c] \notin {"idle", "inflight", "sleeping", "dropped"}
             /\ ~BeginsWithSlash(args[c].path)) =>
                /\ pc[c] = "done"
                /\ result[c].tag \in {"Ok", "Err"}

\* C13 as the specification states it: the error returned when the budget is
\* used up on a 5xx response carries the status and the body of that last
\* response.
C13_ErrorKeepsStatusAndBody ==
    \A c \in Calls :
        (result[c].tag = "Err" /\ result[c].kind = "status") =>
            /\ result[c].status = Last(outcomes[c]).status
            /\ result[c].body = Some(body_of(Last(outcomes[c])))

\* C13: the error returned when the budget is used up on a 5xx response
\* carries the status of that last response and no body; and a call that ended
\* on a 5xx answer returned that error.
C13_ErrorKeepsStatusOnly ==
    \A c \in Calls :
        /\ (result[c].tag = "Err" /\ result[c].kind = "status") =>
               /\ pc[c] = "done"
               /\ Is5xx(Last(outcomes[c]))
               /\ result[c].status = Last(outcomes[c]).status
               /\ result[c].body = None
               /\ attempts[c] = Len(outcomes[c])
        /\ (pc[c] = "done" /\ outcomes[c] # <<>> /\ Is5xx(Last(outcomes[c]))) =>
               /\ result[c].tag = "Err"
               /\ result[c].status = Last(outcomes[c]).status

\* A call answered 500 and then 503 has returned the error with status 503
\* and without a body.
C13_Witness ==
    \E c \in Calls :
        /\ pc[c] = "done"
        /\ Len(outcomes[c]) = 2
        /\ outcomes[c][1].status = 500
        /\ outcomes[c][2].status = 503
        /\ result[c].tag = "Err"
        /\ result[c].status = 503
        /\ result[c].body = None

\* C14: once the task of a call is cancelled at an await, the call does
\* nothing more: no step makes a further attempt or a further sleep, puts
\* anything on the wire, takes an answer or returns a result; what was sent
\* before stays sent.
C14_CancelStopsCall ==
    [][\A c \in Calls :
           cancelled'[c] =>
               /\ pc'[c] = "dropped"
               /\ attempts'[c] = attempts[c]
               /\ sleeps'[c] = sleeps[c]
               /\ wire'[c] = wire[c]
               /\ outcomes'[c] = outcomes[c]
               /\ result'[c] = NoResult]_vars

\* A call was cancelled while it awaited the answer to its second attempt.
C14_Witness ==
    \E c \in Calls :
        /\ cancelled[c]
        /\ pc[c] = "dropped"
        /\ attempts[c] = 2
        /\ Len(outcomes[c]) = 1
        /\ Len(wire[c]) = 2

\* C15: Retry.retries is the number of retries: a call that returns the error
\* of a transient failure has made its first attempt and retry.retries
\* re-attempts, with a sleep before each of them.
C15_RetriesAfterFirstAttempt ==
    \A c \in Calls :
        (result[c].tag = "Err" /\ result[c].kind \in RetryKinds) =>
            /\ attempts[c] = retry.retries + 1
            /\ sleeps[c] = retry.retries

\* A path of plain segments: no dot segment, no "?" or "#", no scheme in front.
PlainPath(path) ==
    /\ path # <<>>
    /\ ~BeginsWithSlash(path)
    /\ Head(path) \notin Schemes
    /\ \A i \in 1..Len(path) : path[i] \notin {".", "..", "?", "#"}

\* The query pairs (z, "b c"), (a, "d&e") and their encoding in that order.
TwoPairs == Some(<< <<(<<"z">>), (<<"b", " ", "c">>)>>,
                    <<(<<"a">>), (<<"d", "&", "e">>)>> >>)
TwoPairsEncoded ==
    Some(<<"z", "=", "b", "+", "c", "&", "a", "=", "d", "%26", "e">>)

\* C16 as the specification states it: for every path that does not begin with
\* "/" the URL of the request is the base URL followed by the path, with the
\* query pairs encoded and appended in their order.
C16_UrlIsBasePlusPath ==
    \A c \in Calls :
        (req[c] # NoRequest /\ ~BeginsWithSlash(args[c].path)) =>
            /\ Unwrap(req[c].url).path = base_url.path \o args[c].path
            /\ args[c].query = None => Unwrap(req[c].url).query = None
            /\ args[c].query = TwoPairs => Unwrap(req[c].url).query = TwoPairsEncoded

\* C16: for every path of plain segments the URL of the request is the base
\* URL (same scheme, host and port) followed by the path, with the query pairs
\* encoded and appended in their order; without pairs there is no query.
C16_PlainPathAppended ==
    \A c \in Calls :
        (req[c] # NoRequest /\ PlainPath(args[c].path)) =>
            /\ Unwrap(req[c].url).scheme = base_url.scheme
            /\ Unwrap(req[c].url).host = base_url.host
            /\ Unwrap(req[c].url).port = base_url.port
            /\ Unwrap(req[c].url).path = base_url.path \o args[c].path
            /\ args[c].query = None => Unwrap(req[c].url).query = None
            /\ args[c].query = TwoPairs => Unwrap(req[c].url).query = TwoPairsEncoded

\* A request for "task/cancel" with the two pairs is on the wire, its URL the
\* base URL plus that path and the encoded pairs.
C16_Witness ==
    \E c \in Calls :
        /\ pc[c] = "inflight"
        /\ args[c].path = <<"task", "/", "cancel">>
        /\ args[c].query = TwoPairs
        /\ Unwrap(wire[c][1].url).path
               = <<"/", "api", "/", "queue", "/", "v1", "/", "task", "/", "cancel">>
        /\ Unwrap(wire[c][1].url).query = TwoPairsEncoded

\* C17: whenever Client::new succeeds the base URL ends with "/" and is the
\* URL `<root>/api/<service>/<version>/`; and a malformed root URL makes
\* Client::new return an error.
C17_BaseUrlIsRootApiServiceVersion ==
    /\ constructed.tag = "Ok" =>
           /\ base_url.path # <<>>
           /\ Last(base_url.path) = "/"
           /\ base_url = url_parse(root_url \o <<"/", "api", "/", ServiceName,
                                                "/", ApiVersion, "/">>).url
    /\ root_url \in { <<"tc.example">>, <<"https:", "/", "/">> } =>
           constructed.tag = "Err"

\* C18: the budget is decremented before it is tested and a call whose budget
\* is zero returns without a sleep, so a sleep happens only between two
\* attempts: a call that awaits an answer or is over has slept once less than
\* it has attempted, a call that sleeps has budget left and has as many sleeps
\* as attempts, and an error of the retry code is returned with the budget at
\* zero.
C18_SleepOnlyBetweenAttempts ==
    \A c \in Calls :
        /\ pc[c] = "inflight" => sleeps[c] = attempts[c] - 1
        /\ pc[c] = "sleeping" =>
               /\ sleeps[c] = attempts[c]
               /\ retries[c] # u32(0)
        /\ (pc[c] \in {"done", "panicked"} /\ attempts[c] >= 1) =>
               sleeps[c] = attempts[c] - 1
        /\ pc[c] = "dropped" => sleeps[c] \in {attempts[c] - 1, attempts[c]}
        /\ (result[c].tag = "Err" /\ result[c].kind \in RetryKinds) =>
               /\ retries[c] = u32(0)
               /\ sleeps[c] = attempts[c] - 1

\* A call has returned the error of its second attempt after one sleep.
C18_Witness ==
    \E c \in Calls :
        /\ pc[c] = "done"
        /\ result[c].tag = "Err"
        /\ result[c].kind \in RetryKinds
        /\ attempts[c] = 2
        /\ sleeps[c] = 1
        /\ retries[c] = u32(0)

\* C19: the retry count is the only budget: the backoff of a call has no
\* limit on the elapsed time, a call whose last answer was a transient failure
\* and that has budget left goes on (it sleeps or has made the next attempt)
\* whatever time has gone by, and the error of a transient failure is returned
\* only with the N-th answer.
C19_RetryCountSoleBudget ==
    \A c \in Calls :
        /\ pc[c] # "idle" => backoff[c].max_elapsed_time = None
        /\ (outcomes[c] # <<>> /\ Retryable(Last(outcomes[c]))
                /\ Len(outcomes[c]) < retry.retries /\ ~cancelled[c]) =>
               /\ InFlight(c)
               /\ result[c] = NoResult
        /\ (result[c].tag = "Err" /\ result[c].kind \in RetryKinds) =>
               Len(outcomes[c]) = retry.retries

\* A call with budget left sleeps after a failed attempt, its interval grown.
C19_Witness ==
    \E c \in Calls :
        /\ retry.retries >= 2
        /\ pc[c] = "sleeping"
        /\ Len(outcomes[c]) = 1
        /\ Retryable(outcomes[c][1])
        /\ backoff[c].current_interval > INITIAL_INTERVAL_MILLIS

\* C20: the request built before the loop is a template that no attempt uses
\* up or changes: every attempt, the first and every retry, is a copy of it
\* with the method and body of the call and the URL of the first attempt, and
\* the template still has them.
C20_AttemptsAreClonesOfTemplate ==
    \A c \in Calls :
        /\ Len(wire[c]) = attempts[c]
        /\ \A i \in 1..Len(wire[c]) :
               /\ wire[c][i].method = args[c].method
               /\ wire[c][i].body = args[c].body
               /\ wire[c][i].url = wire[c][1].url
               /\ wire[c][i].method = req[c].method
               /\ wire[c][i].body = req[c].body
               /\ wire[c][i].url = req[c].url

\* A POST with a body has been sent twice, both times with that body.
C20_Witness ==
    \E c \in Calls :
        /\ Len(wire[c]) = 2
        /\ args[c].method = "POST"
        /\ wire[c][2].body = Some("{}")
        /\ wire[c][2] = wire[c][1]

\* C22: an Ok result never carries a 5xx status: the response a call returns
\* is its last answer and that is no 5xx; a 5xx answer, the one to the last
\* permitted attempt included, is followed by a retry or ends the call with an
\* error (or the panic of C2), for every retry ceiling.
C22_OkNeverCarries5xx ==
    \A c \in Calls :
        /\ result[c].tag = "Ok" =>
               /\ outcomes[c] # <<>>
               /\ result[c].status = Last(outcomes[c]).status
               /\ result[c].status < 500 \/ result[c].status > 599
        /\ \A i \in 1..Len(outcomes[c]) :
               Is5xx(outcomes[c][i]) =>
                   /\ i < Len(outcomes[c]) => (attempts[c] > i /\ sleeps[c] >= i)
                   /\ i = Len(outcomes[c]) =>
                          /\ result[c].tag # "Ok"
                          /\ \/ attempts[c] > i /\ sleeps[c] >= i
                             \/ pc[c] = "sleeping" /\ sleeps[c] = i
                             \/ cancelled[c]
                             \/ result[c].tag \in {"Err", "Panic"}

\* With the largest ceiling, a call whose earlier attempt failed in transport
\* got a 503 on its last permitted attempt and returned the error for it.
C22_Witness ==
    \E c \in Calls :
        /\ retry.retries = MaxRetries
        /\ retry.retries >= 2
        /\ pc[c] = "done"
        /\ Len(outcomes[c]) = retry.retries
        /\ outcomes[c][1].kind = "transport"
        /\ Last(outcomes[c]) = [kind |-> "response", status |-> 503]
        /\ result[c].tag = "Err"
        /\ result[c].status = 503

\* C23: with N >= 1, whenever a call has an attempt under way the budget left
\* plus the attempts that failed so far is N and the budget left is at least
\* 1; so no call makes more than N attempts, whatever mix of transport
\* failures and 5xx answers it gets.
C23_BudgetAccounting ==
    \A c \in Calls :
        retry.retries >= 1 =>
            /\ attempts[c] <= retry.retries
            /\ Len(wire[c]) <= retry.retries
            /\ pc[c] = "inflight" =>
                   /\ \A i \in 1..Len(outcomes[c]) : Retryable(outcomes[c][i])
                   /\ retries[c].hi = 0
                   /\ retries[c].lo + Len(outcomes[c]) = retry.retries
                   /\ retries[c].lo >= 1
                   /\ attempts[c] = Len(outcomes[c]) + 1

\* With the largest ceiling, the last permitted attempt of a call is under
\* way with a budget of 1 left, after a failure.
C23_Witness ==
    \E c \in Calls :
        /\ retry.retries = MaxRetries
        /\ retry.retries >= 2
        /\ pc[c] = "inflight"
        /\ attempts[c] = retry.retries
        /\ retries[c] = u32(1)
        /\ Retryable(outcomes[c][1])

\* All that a call holds.
CallState(c) ==
    <<pc[c], cancelled[c], args[c], req[c], retries[c], backoff[c], nonces[c],
      attempts[c], sleeps[c], outcomes[c], wire[c], result[c]>>

\* The attempts of a call that failed so far.
Failed(c) == Cardinality({ i \in 1..Len(outcomes[c]) : Retryable(outcomes[c][i]) })

\* The backoff interval after k sleeps.
RECURSIVE IntervalAfter(_)
IntervalAfter(k) ==
    IF k = 0 THEN INITIAL_INTERVAL_MILLIS ELSE (IntervalAfter(k - 1) * 3) \div 2

\* With N >= 1, the budget, the backoff, the attempts and the result of a call
\* are what its own answers make them.
OwnAccount(c) ==
    (retry.retries >= 1 /\ req[c] # NoRequest) =>
        /\ retries[c] = u32(retry.retries - Failed(c))
        /\ backoff[c].current_interval = IntervalAfter(sleeps[c])
        /\ pc[c] = "inflight" =>
               (attempts[c] = Len(outcomes[c]) + 1 /\ sleeps[c] = Failed(c))
        /\ pc[c] = "sleeping" =>
               (attempts[c] = Len(outcomes[c]) /\ sleeps[c] = Failed(c))
        /\ pc[c] = "done" =>
               /\ attempts[c] = Len(outcomes[c])
               /\ result[c] =
                      IF Last(outcomes[c]).kind = "transport" THEN Err("transport", 0)
                      ELSE IF Is5xx(Last(outcomes[c]))
                      THEN Err("status", Last(outcomes[c]).status)
                      ELSE Ok(Last(outcomes[c]))
               /\ Retryable(Last(outcomes[c])) => Failed(c) = retry.retries

\* C21: calls on the same Client are independent under every interleaving: a
\* step of one call changes nothing that another call holds, every call has
\* the budget, backoff, attempts and result that its own answers make them,
\* and no step changes the retry policy or the base URL of the Client.
C21_CallsIndependent ==
    [][/\ retry' = retry
       /\ base_url' = base_url
       /\ \A c, d \in DOMAIN pc :
              (c # d /\ CallState(c)' # CallState(c)) => CallState(d)' = CallState(d)
       /\ \A c \in DOMAIN pc : OwnAccount(c)']_vars

\* While the second call awaits the answer to its first attempt, its budget
\* whole, the first call has used up a budget of 2 and returned its error.
C21_Witness ==
    /\ DOMAIN pc = {1, 2}
    /\ retry.retries = 2
    /\ pc[1] = "done"
    /\ result[1].tag = "Err"
    /\ attempts[1] = 2
    /\ pc[2] = "inflight"
    /\ attempts[2] = 1
    /\ retries[2] = u32(2)
    /\ backoff[2].current_interval = INITIAL_INTERVAL_MILLIS

====
